---- MODULE Spec2Model ----
(***************************************************************************)
(* Billing service of GoTuto: clients and invoices kept in a relational    *)
(* store behind GORM, and the HTTP handlers that create, update and        *)
(* soft-delete them.  Spec runs the handlers one request at a time;        *)
(* SpecConc runs them as concurrent requests whose store reads and writes  *)
(* interleave; SpecFields runs the invoice handlers over requests whose    *)
(* amounts, dates and descriptions vary; SpecFn applies the pure helper    *)
(* functions of the models package and the number format to enumerated     *)
(* inputs.  SpecClients, SpecLookups and SpecStatus run the handlers over  *)
(* client fields, over lookups of deleted records and over status texts;   *)
(* SpecFaults lets the count of DeleteClient fail; SpecRace runs           *)
(* concurrent updates of one invoice; SpecCategories runs the category     *)
(* handlers of the catalog.                                                *)
(***************************************************************************)
EXTENDS Integers, Sequences, FiniteSets, TLC

(* ---------------------------------------------------------------------- *)
(* Bounds of the model                                                     *)
(* ---------------------------------------------------------------------- *)
MaxClients == 2

MaxInvoices == 2

MaxDay == 2

NumProcs == 2

\* the largest count of invoices of the day a number is formatted for
MaxCount == 11

\* the most statuses on a path of status changes that is followed
MaxWalk == 5

MaxCategories == 3

(* ---------------------------------------------------------------------- *)
(* Value types (models/invoice.go)                                         *)
(* ---------------------------------------------------------------------- *)
InvoiceStatusDraft == "draft"

InvoiceStatusSent == "sent"

InvoiceStatusPaid == "paid"

InvoiceStatusOverdue == "overdue"

InvoiceStatusCancelled == "cancelled"

InvoiceStatus ==
    {InvoiceStatusDraft, InvoiceStatusSent, InvoiceStatusPaid,
     InvoiceStatusOverdue, InvoiceStatusCancelled}

\* HTTP status codes written by the handlers
StatusOK == 200

StatusCreated == 201

StatusBadRequest == 400

StatusNotFound == 404

StatusInternalServerError == 500

VARIABLES
    clients,    \* rows of table clients, in id order (id = position)
    invoices,   \* rows of table invoices, in id order (id = position)
    now,        \* the wall clock, as a day index
    last,       \* the last request served and the response written
    procs,      \* the requests in flight (SpecConc only)
    categories  \* rows of table categories of the catalog, in id order

vars == <<clients, invoices, now, last, procs, categories>>

(* ---------------------------------------------------------------------- *)
(* Pure helpers of the models package                                      *)
(* ---------------------------------------------------------------------- *)
\* the map literal `transitions` of isValidStatusTransition
transitions ==
    [s \in InvoiceStatus |->
        CASE s = InvoiceStatusDraft -> {InvoiceStatusSent, InvoiceStatusCancelled}
          [] s = InvoiceStatusSent -> {InvoiceStatusPaid, InvoiceStatusOverdue,
                                       InvoiceStatusCancelled}
          [] s = InvoiceStatusOverdue -> {InvoiceStatusPaid, InvoiceStatusCancelled}
          [] s = InvoiceStatusPaid -> {}
          [] s = InvoiceStatusCancelled -> {}]

\* a transition check that lets a non-terminal status "change" to itself
isValidStatusTransitionSelfLoop(from, to) ==
    IF from \notin DOMAIN transitions
    THEN FALSE
    ELSE to \in transitions[from] \/ (to = from /\ transitions[from] # {})

isValidStatusTransition(from, to) ==
    IF from \notin DOMAIN transitions
    THEN FALSE
    ELSE to \in transitions[from]

\* an overdue test that counts the due instant itself as overdue
IsOverdueInclusive(i) ==
    IF i.Status = InvoiceStatusPaid \/ i.Status = InvoiceStatusCancelled
          \/ i.Status = InvoiceStatusDraft
    THEN FALSE
    ELSE now >= i.DueDate

\* Invoice.IsOverdue: time.Now().After(i.DueDate), unless paid, cancelled or draft
IsOverdue(i) ==
    IF i.Status = InvoiceStatusPaid \/ i.Status = InvoiceStatusCancelled
          \/ i.Status = InvoiceStatusDraft
    THEN FALSE
    ELSE now > i.DueDate

\* A description is a character (its code point) repeated n times, as
\* generateLongString builds it.  The bytes of a character in UTF-8, the
\* encoding of Go strings:
Utf8Width(r) ==
    IF r < 128 THEN 1 ELSE IF r < 2048 THEN 2 ELSE IF r < 65536 THEN 3 ELSE 4

\* len(s) of Go: the number of bytes of the string
ByteLen(d) == d.n * Utf8Width(d.ch)

\* validateCreateInvoiceRequest: err tells whether an error is returned, at
\* which of the four checks returned it (0 for the final return nil)
validateCreateInvoiceRequest(req) ==
    IF req.ClientID = 0
    THEN [err |-> TRUE, at |-> 1]
    ELSE IF req.Amount <= 0
    THEN [err |-> TRUE, at |-> 2]
    ELSE IF ByteLen(req.Description) > 500
    THEN [err |-> TRUE, at |-> 3]
    ELSE IF req.DueDate # 0 /\ req.IssueDate # 0 /\ req.DueDate < req.IssueDate
    THEN [err |-> TRUE, at |-> 4]
    ELSE [err |-> FALSE, at |-> 0]

(* ---------------------------------------------------------------------- *)
(* Formatting of the invoice number                                        *)
(* ---------------------------------------------------------------------- *)
Digit == <<"0", "1", "2", "3", "4", "5", "6", "7", "8", "9">>

RECURSIVE FormatInt(_)
\* strconv.FormatInt(n, 10) for n >= 0
FormatInt(n) ==
    IF n < 10 THEN Digit[n + 1] ELSE FormatInt(n \div 10) \o Digit[(n % 10) + 1]

\* day index -> calendar date as the integer YYYYMMDD; day 1 is 2024-01-30,
\* so that the days of the model cross a month boundary
CalendarDate(day) ==
    IF 29 + day <= 31 THEN 20240129 + day ELSE 20240200 + (day - 2)

\* a number whose sequence is the count itself
InvoiceNumberZeroBased(day, count) ==
    "INV-" \o FormatInt(CalendarDate(day)) \o "-" \o FormatInt(count)

\* time.Now().Format("INV-20060102-") + strconv.FormatInt(count+1, 10)
InvoiceNumber(day, count) ==
    "INV-" \o FormatInt(CalendarDate(day)) \o "-" \o FormatInt(count + 1)

\* the reader of a number: a decimal digit string as an integer
IsDigits(s) ==
    /\ Len(s) > 0
    /\ \A i \in 1..Len(s) : \E d \in 1..10 : SubSeq(s, i, i) = Digit[d]

DigitValue(c) == CHOOSE d \in 0..9 : Digit[d + 1] = c

RECURSIVE ParseInt(_)
ParseInt(s) ==
    IF Len(s) = 1
    THEN DigitValue(s)
    ELSE 10 * ParseInt(SubSeq(s, 1, Len(s) - 1))
            + DigitValue(SubSeq(s, Len(s), Len(s)))

\* "INV-YYYYMMDD-<N>" split into its date (as the integer YYYYMMDD) and its
\* sequence
ParseInvoiceNumber(s) ==
    IF /\ Len(s) >= 14
       /\ SubSeq(s, 1, 4) = "INV-"
       /\ IsDigits(SubSeq(s, 5, 12))
       /\ SubSeq(s, 13, 13) = "-"
       /\ IsDigits(SubSeq(s, 14, Len(s)))
    THEN [ok |-> TRUE, date |-> ParseInt(SubSeq(s, 5, 12)),
          seq |-> ParseInt(SubSeq(s, 14, Len(s)))]
    ELSE [ok |-> FALSE, date |-> 0, seq |-> 0]

(* ---------------------------------------------------------------------- *)
(* The store: GORM queries over the two tables                             *)
(* ---------------------------------------------------------------------- *)
\* a lookup that also finds soft-deleted rows
FirstClientUnscoped(cs, id) == id \in 1..Len(cs)

\* db.First(&client, id): soft-deleted rows are not found
FirstClient(cs, id) == id \in 1..Len(cs) /\ ~cs[id].DeletedAt

\* an invoice lookup that also finds soft-deleted rows
FirstInvoiceUnscoped(invs, id) == id \in 1..Len(invs)

\* db.First(&invoice, id)
FirstInvoice(invs, id) == id \in 1..Len(invs) /\ ~invs[id].DeletedAt

\* a count without the client_id filter
CountInvoicesOfAnyClient(invs, id) ==
    Cardinality({i \in 1..Len(invs) : ~invs[i].DeletedAt})

\* a count that also counts soft-deleted rows
CountInvoicesOfClientUnscoped(invs, id) ==
    Cardinality({i \in 1..Len(invs) : invs[i].ClientID = id})

\* db.Model(&models.Invoice{}).Where("client_id = ?", id).Count(&invoiceCount)
CountInvoicesOfClient(invs, id) ==
    Cardinality({i \in 1..Len(invs) : invs[i].ClientID = id /\ ~invs[i].DeletedAt})

\* db.Model(&models.Invoice{}).Where("DATE(created_at) = ?", day).Count(&count)
CountInvoicesCreatedOn(invs, day) ==
    Cardinality({i \in 1..Len(invs) : invs[i].CreatedAt = day /\ ~invs[i].DeletedAt})

\* an insert that ignores the unique index on invoices.number
InsertInvoiceOKNoUnique(cs, invs, inv) ==
    inv.ClientID \in 1..Len(cs)

\* db.Create(&invoice) succeeds: unique index on number (all rows, deleted
\* or not) and foreign key client_id -> clients(id) (row exists)
InsertInvoiceOK(cs, invs, inv) ==
    /\ \A i \in 1..Len(invs) : invs[i].Number # inv.Number
    /\ inv.ClientID \in 1..Len(cs)

\* db.Create(&client) succeeds: unique index on email
InsertClientOK(cs, c) == \A i \in 1..Len(cs) : cs[i].Email # c.Email

\* db.Delete(&row): UPDATE ... SET deleted_at = now WHERE id = ? AND deleted_at IS NULL
SoftDelete(rows, id) ==
    IF id \in 1..Len(rows) /\ ~rows[id].DeletedAt
    THEN [rows EXCEPT ![id].DeletedAt = TRUE]
    ELSE rows

\* db.Save(&row): UPDATE of every column WHERE id = ? AND deleted_at IS NULL;
\* when no row is updated, newer GORM versions continue with an upsert that
\* writes the whole record (upsert = TRUE), older ones stop (upsert = FALSE)
Save(rows, rec, upsert) ==
    IF rec.ID \in 1..Len(rows) /\ (~rows[rec.ID].DeletedAt \/ upsert)
    THEN [rows EXCEPT ![rec.ID] = rec]
    ELSE rows

\* db.Save(&client) succeeds: the unique index on email, the row itself
\* left out
SaveClientOK(cs, c) ==
    \A i \in 1..Len(cs) : i # c.ID => cs[i].Email # c.Email

(* ---------------------------------------------------------------------- *)
(* Request binding (struct tags of the request types)                      *)
(* ---------------------------------------------------------------------- *)
IsEmail(s) == s \in {"a@x.io", "b@x.io"}

BindCreateClient(req) ==
    /\ Len(req.Name) >= 2 /\ Len(req.Name) <= 100
    /\ IsEmail(req.Email)
    /\ Len(req.Phone) <= 20
    /\ Len(req.Address) <= 255

\* the binding without the gt=0 of the amount: only `required` is left
BindCreateInvoiceAnyAmount(req) ==
    /\ req.ClientID # 0
    /\ req.Amount # 0
    /\ req.Status \in InvoiceStatus \cup {""}
    /\ req.IssueDate # 0
    /\ req.DueDate # 0
    /\ Len(req.Description) <= 500

BindCreateInvoice(req) ==
    /\ req.ClientID # 0
    /\ req.Amount > 0
    /\ req.Status \in InvoiceStatus \cup {""}
    /\ req.IssueDate # 0
    /\ req.DueDate # 0
    /\ Len(req.Description) <= 500

\* the binding of the update request without the oneof of the status
BindUpdateInvoiceAnyStatus(req) ==
    /\ req.Amount >= 0
    /\ Len(req.Description) <= 500

BindUpdateClient(req) ==
    /\ req.Name = "" \/ (Len(req.Name) >= 2 /\ Len(req.Name) <= 100)
    /\ req.Email = "" \/ IsEmail(req.Email)
    /\ Len(req.Phone) <= 20
    /\ Len(req.Address) <= 255

BindUpdateInvoice(req) ==
    /\ req.Amount >= 0
    /\ req.Status \in InvoiceStatus \cup {""}
    /\ Len(req.Description) <= 500

(* ---------------------------------------------------------------------- *)
(* What the handlers compute                                               *)
(* ---------------------------------------------------------------------- *)
NewClient(id, req) ==
    [ID |-> id, Name |-> req.Name, Email |-> req.Email, Phone |-> req.Phone,
     Address |-> req.Address, DeletedAt |-> FALSE]

\* the models.Invoice literal of CreateInvoice and the default status
NewInvoice(id, number, req, createdAt) ==
    [ID |-> id, Number |-> number, ClientID |-> req.ClientID,
     Amount |-> req.Amount,
     Status |-> IF req.Status = "" THEN InvoiceStatusDraft ELSE req.Status,
     IssueDate |-> req.IssueDate, DueDate |-> req.DueDate,
     Description |-> req.Description, CreatedAt |-> createdAt,
     DeletedAt |-> FALSE]

\* a client update that leaves the email out
ApplyClientUpdateNoEmail(client, req) ==
    [client EXCEPT
        !.Name = IF req.Name # "" THEN req.Name ELSE @,
        !.Phone = IF req.Phone # "" THEN req.Phone ELSE @,
        !.Address = IF req.Address # "" THEN req.Address ELSE @]

\* a client update that assigns every field of the request, provided or not
ApplyClientUpdateOverwrite(client, req) ==
    [client EXCEPT
        !.Name = IF req.Name # "" THEN req.Name ELSE @,
        !.Email = IF req.Email # "" THEN req.Email ELSE @,
        !.Phone = req.Phone,
        !.Address = req.Address]

\* "Update only provided fields" of UpdateClient
ApplyClientUpdate(client, req) ==
    [client EXCEPT
        !.Name = IF req.Name # "" THEN req.Name ELSE @,
        !.Email = IF req.Email # "" THEN req.Email ELSE @,
        !.Phone = IF req.Phone # "" THEN req.Phone ELSE @,
        !.Address = IF req.Address # "" THEN req.Address ELSE @]

\* an update that builds the row from the request alone and so loses the
\* number
ApplyInvoiceUpdateFresh(invoice, req) ==
    [invoice EXCEPT
        !.Number = "",
        !.Amount = IF req.Amount > 0 THEN req.Amount ELSE @,
        !.Status = IF req.Status # "" THEN req.Status ELSE @,
        !.IssueDate = IF req.IssueDate # 0 THEN req.IssueDate ELSE @,
        !.DueDate = IF req.DueDate # 0 THEN req.DueDate ELSE @,
        !.Description = IF req.Description # "" THEN req.Description ELSE @]

\* an update that assigns every field of the request, provided or not
ApplyInvoiceUpdateOverwrite(invoice, req) ==
    [invoice EXCEPT
        !.Amount = req.Amount,
        !.Status = IF req.Status # "" THEN req.Status ELSE @,
        !.IssueDate = req.IssueDate,
        !.DueDate = req.DueDate,
        !.Description = req.Description]

\* "Update only provided fields" of UpdateInvoice
ApplyInvoiceUpdate(invoice, req) ==
    [invoice EXCEPT
        !.Amount = IF req.Amount > 0 THEN req.Amount ELSE @,
        !.Status = IF req.Status # "" THEN req.Status ELSE @,
        !.IssueDate = IF req.IssueDate # 0 THEN req.IssueDate ELSE @,
        !.DueDate = IF req.DueDate # 0 THEN req.DueDate ELSE @,
        !.Description = IF req.Description # "" THEN req.Description ELSE @]

\* the guard of DeleteInvoice, wrongly refusing nothing
CanDeleteInvoiceAny(invoice) == TRUE

\* "Prevent deletion of paid invoices"
CanDeleteInvoice(invoice) == invoice.Status # InvoiceStatusPaid

\* c.JSON(code, body): the handler that answered, the status code and the
\* "invoice_count" of the body (0 when the body has none)
Response(op, code, count) == [op |-> op, code |-> code, count |-> count]

Idle == [pc |-> "idle"]

(* ---------------------------------------------------------------------- *)
(* Inputs                                                                  *)
(* ---------------------------------------------------------------------- *)
ClientIDs == 1..MaxClients

InvoiceIDs == 1..MaxInvoices

CreateClientRequests ==
    [Name : {"Al"}, Email : {"a@x.io", "b@x.io"}, Phone : {""}, Address : {""}]

CreateInvoiceRequests ==
    [ClientID : ClientIDs, Amount : {10}, Status : InvoiceStatus \cup {""},
     IssueDate : {1}, DueDate : {2}, Description : {""}]

UpdateInvoiceRequests ==
    [Amount : {0}, Status : InvoiceStatus \cup {""},
     IssueDate : {0}, DueDate : {0}, Description : {""}]

(* ---------------------------------------------------------------------- *)
(* Initial state: empty tables                                             *)
(* ---------------------------------------------------------------------- *)
Init ==
    /\ clients = <<>>
    /\ invoices = <<>>
    /\ now = 1
    /\ last = Response("none", 0, 0)
    /\ procs = [p \in 1..NumProcs |-> Idle]
    /\ categories = <<>>

\* the clock advances
Tick ==
    /\ now < MaxDay
    /\ now' = now + 1
    /\ UNCHANGED <<clients, invoices, last, procs, categories>>

(* ---------------------------------------------------------------------- *)
(* The handlers, one request at a time                                     *)
(* ---------------------------------------------------------------------- *)
CreateClient(req) ==
    /\ Len(clients) < MaxClients
    /\ LET client == NewClient(Len(clients) + 1, req) IN
       IF ~BindCreateClient(req)
       THEN /\ last' = Response("CreateClient", StatusBadRequest, 0)
            /\ UNCHANGED clients
       ELSE IF ~InsertClientOK(clients, client)
       THEN /\ last' = Response("CreateClient", StatusInternalServerError, 0)
            /\ UNCHANGED clients
       ELSE /\ clients' = Append(clients, client)
            /\ last' = Response("CreateClient", StatusCreated, 0)
    /\ UNCHANGED <<invoices, now, procs, categories>>

DeleteClient(id) ==
    /\ IF ~FirstClient(clients, id)
       THEN /\ last' = Response("DeleteClient", StatusNotFound, 0)
            /\ UNCHANGED clients
       ELSE LET invoiceCount == CountInvoicesOfClient(invoices, id) IN
            IF invoiceCount > 0
            THEN /\ last' = Response("DeleteClient", StatusBadRequest,
                                     invoiceCount)
                 /\ UNCHANGED clients
            ELSE /\ clients' = SoftDelete(clients, id)
                 /\ last' = Response("DeleteClient", StatusOK, 0)
    /\ UNCHANGED <<invoices, now, procs, categories>>

CreateInvoice(req) ==
    /\ Len(invoices) < MaxInvoices
    /\ IF ~BindCreateInvoice(req)
       THEN /\ last' = Response("CreateInvoice", StatusBadRequest, 0)
            /\ UNCHANGED invoices
       ELSE IF ~FirstClient(clients, req.ClientID)
       THEN /\ last' = Response("CreateInvoice", StatusBadRequest, 0)
            /\ UNCHANGED invoices
       ELSE LET count == CountInvoicesCreatedOn(invoices, now)
                invoiceNumber == InvoiceNumber(now, count)
                invoice == NewInvoice(Len(invoices) + 1, invoiceNumber, req, now)
            IN  IF ~InsertInvoiceOK(clients, invoices, invoice)
                THEN /\ last' = Response("CreateInvoice",
                                         StatusInternalServerError, 0)
                     /\ UNCHANGED invoices
                ELSE /\ invoices' = Append(invoices, invoice)
                     /\ last' = Response("CreateInvoice", StatusCreated, 0)
    /\ UNCHANGED <<clients, now, procs, categories>>

UpdateInvoice(id, req) ==
    /\ IF ~FirstInvoice(invoices, id)
       THEN /\ last' = Response("UpdateInvoice", StatusNotFound, 0)
            /\ UNCHANGED invoices
       ELSE IF ~BindUpdateInvoice(req)
       THEN /\ last' = Response("UpdateInvoice", StatusBadRequest, 0)
            /\ UNCHANGED invoices
       ELSE /\ invoices' = Save(invoices, ApplyInvoiceUpdate(invoices[id], req), FALSE)
            /\ last' = Response("UpdateInvoice", StatusOK, 0)
    /\ UNCHANGED <<clients, now, procs, categories>>

DeleteInvoice(id) ==
    /\ IF ~FirstInvoice(invoices, id)
       THEN /\ last' = Response("DeleteInvoice", StatusNotFound, 0)
            /\ UNCHANGED invoices
       ELSE IF ~CanDeleteInvoice(invoices[id])
       THEN /\ last' = Response("DeleteInvoice", StatusBadRequest, 0)
            /\ UNCHANGED invoices
       ELSE /\ invoices' = SoftDelete(invoices, id)
            /\ last' = Response("DeleteInvoice", StatusOK, 0)
    /\ UNCHANGED <<clients, now, procs, categories>>

Next ==
    \/ \E req \in CreateClientRequests : CreateClient(req)
    \/ \E id \in ClientIDs : DeleteClient(id)
    \/ \E req \in CreateInvoiceRequests : CreateInvoice(req)
    \/ \E id \in InvoiceIDs, req \in UpdateInvoiceRequests : UpdateInvoice(id, req)
    \/ \E id \in InvoiceIDs : DeleteInvoice(id)

Spec == Init /\ [][Next]_vars

(* ---------------------------------------------------------------------- *)
(* The handlers as concurrent requests: one step per store access.  The    *)
(* response goes to the requester and is not recorded; a request that is   *)
(* answered at once (not found, refused) leaves the state as it is.        *)
(* ---------------------------------------------------------------------- *)
Procs == 1..NumProcs

ConcCreateClientRequests ==
    [Name : {"Al"}, Email : {"a@x.io"}, Phone : {""}, Address : {""}]

ConcCreateInvoiceRequests ==
    [ClientID : ClientIDs, Amount : {10}, Status : {"", InvoiceStatusSent},
     IssueDate : {1}, DueDate : {2}, Description : {""}]

ConcUpdateInvoiceRequests ==
    [Amount : {0}, Status : {InvoiceStatusPaid},
     IssueDate : {0}, DueDate : {0}, Description : {""}]

\* CreateClient: ShouldBindJSON and db.Create(&client)
ccCreate(req) ==
    /\ Len(clients) < MaxClients
    /\ LET client == NewClient(Len(clients) + 1, req) IN
       IF BindCreateClient(req) /\ InsertClientOK(clients, client)
       THEN clients' = Append(clients, client)
       ELSE UNCHANGED clients
    /\ UNCHANGED <<invoices, now, last, procs, categories>>

\* CreateInvoice: ShouldBindJSON and db.First(&client, req.ClientID)
ciFindClient(p, req) ==
    /\ procs[p].pc = "idle"
    /\ Len(invoices) < MaxInvoices
    /\ IF ~BindCreateInvoice(req) \/ ~FirstClient(clients, req.ClientID)
       THEN UNCHANGED procs
       ELSE procs' = [procs EXCEPT ![p] = [pc |-> "ci_count", req |-> req]]
    /\ UNCHANGED <<clients, invoices, now, last, categories>>

\* CreateInvoice: the count of the invoices created today, and the number
\* formatted from the clock and the count
ciCount(p) ==
    /\ procs[p].pc = "ci_count"
    /\ LET count == CountInvoicesCreatedOn(invoices, now) IN
       procs' = [procs EXCEPT ![p] =
                    [pc |-> "ci_insert", req |-> procs[p].req,
                     number |-> InvoiceNumber(now, count)]]
    /\ UNCHANGED <<clients, invoices, now, last, categories>>

\* CreateInvoice: db.Create(&invoice)
ciInsert(p) ==
    /\ procs[p].pc = "ci_insert"
    /\ LET invoice == NewInvoice(Len(invoices) + 1, procs[p].number,
                                 procs[p].req, now)
       IN  IF InsertInvoiceOK(clients, invoices, invoice)
              /\ Len(invoices) < MaxInvoices
           THEN invoices' = Append(invoices, invoice)
           ELSE UNCHANGED invoices
    /\ procs' = [procs EXCEPT ![p] = Idle]
    /\ UNCHANGED <<clients, now, last, categories>>

\* DeleteClient: db.First(&client, id)
dcFind(p, id) ==
    /\ procs[p].pc = "idle"
    /\ IF ~FirstClient(clients, id)
       THEN UNCHANGED procs
       ELSE procs' = [procs EXCEPT ![p] = [pc |-> "dc_count", id |-> id]]
    /\ UNCHANGED <<clients, invoices, now, last, categories>>

\* DeleteClient: the count of the client's invoices and the guard
dcCount(p) ==
    /\ procs[p].pc = "dc_count"
    /\ LET invoiceCount == CountInvoicesOfClient(invoices, procs[p].id) IN
       IF invoiceCount > 0
       THEN procs' = [procs EXCEPT ![p] = Idle]
       ELSE procs' = [procs EXCEPT ![p] = [pc |-> "dc_delete", id |-> procs[p].id]]
    /\ UNCHANGED <<clients, invoices, now, last, categories>>

\* DeleteClient: db.Delete(&client)
dcDelete(p) ==
    /\ procs[p].pc = "dc_delete"
    /\ clients' = SoftDelete(clients, procs[p].id)
    /\ procs' = [procs EXCEPT ![p] = Idle]
    /\ UNCHANGED <<invoices, now, last, categories>>

\* DeleteInvoice: db.First(&invoice, id) and the guard on the status read
diFind(p, id) ==
    /\ procs[p].pc = "idle"
    /\ IF ~FirstInvoice(invoices, id)
       THEN UNCHANGED procs
       ELSE IF ~CanDeleteInvoice(invoices[id])
       THEN UNCHANGED procs
       ELSE procs' = [procs EXCEPT ![p] = [pc |-> "di_delete", id |-> id]]
    /\ UNCHANGED <<clients, invoices, now, last, categories>>

\* DeleteInvoice: db.Delete(&invoice)
diDelete(p) ==
    /\ procs[p].pc = "di_delete"
    /\ invoices' = SoftDelete(invoices, procs[p].id)
    /\ procs' = [procs EXCEPT ![p] = Idle]
    /\ UNCHANGED <<clients, now, last, categories>>

\* UpdateInvoice: db.First(&invoice, id), ShouldBindJSON and the new field
\* values, computed on the copy read
uiFind(p, id, req) ==
    /\ procs[p].pc = "idle"
    /\ IF ~FirstInvoice(invoices, id)
       THEN UNCHANGED procs
       ELSE IF ~BindUpdateInvoice(req)
       THEN UNCHANGED procs
       ELSE procs' = [procs EXCEPT ![p] =
                         [pc |-> "ui_save",
                          invoice |-> ApplyInvoiceUpdate(invoices[id], req)]]
    /\ UNCHANGED <<clients, invoices, now, last, categories>>

\* UpdateInvoice: db.Save(&invoice)
uiSave(p, upsert) ==
    /\ procs[p].pc = "ui_save"
    /\ invoices' = Save(invoices, procs[p].invoice, upsert)
    /\ procs' = [procs EXCEPT ![p] = Idle]
    /\ UNCHANGED <<clients, now, last, categories>>

NextConc ==
    \/ \E req \in ConcCreateClientRequests : ccCreate(req)
    \/ \E p \in Procs, req \in ConcCreateInvoiceRequests : ciFindClient(p, req)
    \/ \E p \in Procs : ciCount(p)
    \/ \E p \in Procs : ciInsert(p)
    \/ \E p \in Procs, id \in ClientIDs : dcFind(p, id)
    \/ \E p \in Procs : dcCount(p)
    \/ \E p \in Procs : dcDelete(p)
    \/ \E p \in Procs, id \in InvoiceIDs : diFind(p, id)
    \/ \E p \in Procs : diDelete(p)
    \/ \E p \in Procs, id \in InvoiceIDs, req \in ConcUpdateInvoiceRequests :
          uiFind(p, id, req)
    \/ \E p \in Procs, upsert \in BOOLEAN : uiSave(p, upsert)

SpecConc == Init /\ [][NextConc]_vars

(* ---------------------------------------------------------------------- *)
(* The client handlers over requests whose fields vary                     *)
(* ---------------------------------------------------------------------- *)
GetClient(id) ==
    /\ IF ~FirstClient(clients, id)
       THEN last' = Response("GetClient", StatusNotFound, 0)
       ELSE last' = Response("GetClient", StatusOK, 0)
    /\ UNCHANGED <<clients, invoices, now, procs, categories>>

UpdateClient(id, req) ==
    /\ IF ~FirstClient(clients, id)
       THEN /\ last' = Response("UpdateClient", StatusNotFound, 0)
            /\ UNCHANGED clients
       ELSE IF ~BindUpdateClient(req)
       THEN /\ last' = Response("UpdateClient", StatusBadRequest, 0)
            /\ UNCHANGED clients
       ELSE LET client == ApplyClientUpdate(clients[id], req) IN
            IF ~SaveClientOK(clients, client)
            THEN /\ last' = Response("UpdateClient",
                                     StatusInternalServerError, 0)
                 /\ UNCHANGED clients
            ELSE /\ clients' = Save(clients, client, FALSE)
                 /\ last' = Response("UpdateClient", StatusOK, 0)
    /\ UNCHANGED <<invoices, now, procs, categories>>

BaseCreateClientRequest ==
    [Name |-> "Al", Email |-> "a@x.io", Phone |-> "", Address |-> ""]

FieldCreateClientRequests ==
    {[BaseCreateClientRequest EXCEPT !.Email = e, !.Phone = p] :
        e \in {"a@x.io", "b@x.io"}, p \in {"", "555"}}
    \cup {[BaseCreateClientRequest EXCEPT !.Name = "A"],
          [BaseCreateClientRequest EXCEPT !.Email = "nope"]}

\* the request body {} and the requests that supply one field, or two
EmptyUpdateClientRequest ==
    [Name |-> "", Email |-> "", Phone |-> "", Address |-> ""]

FieldUpdateClientRequests ==
    {EmptyUpdateClientRequest}
    \cup {[EmptyUpdateClientRequest EXCEPT !.Name = n] : n \in {"Bo", "A"}}
    \cup {[EmptyUpdateClientRequest EXCEPT !.Email = e] :
             e \in {"b@x.io", "nope"}}
    \cup {[EmptyUpdateClientRequest EXCEPT !.Phone = "777"],
          [EmptyUpdateClientRequest EXCEPT !.Address = "Rue"],
          [EmptyUpdateClientRequest EXCEPT !.Name = "Bo", !.Phone = "777"]}

NextClients ==
    \/ \E req \in FieldCreateClientRequests : CreateClient(req)
    \/ \E id \in ClientIDs : GetClient(id)
    \/ \E id \in ClientIDs, req \in FieldUpdateClientRequests :
          UpdateClient(id, req)

SpecClients == Init /\ [][NextClients]_vars

(* ---------------------------------------------------------------------- *)
(* The handlers over requests whose amounts, dates and descriptions vary,  *)
(* one request at a time, for one client                                   *)
(* ---------------------------------------------------------------------- *)
\* a request that binds, and the requests that differ from it in the dates,
\* or in one field that is missing or out of range
BaseCreateInvoiceRequest ==
    [ClientID |-> 1, Amount |-> 10, Status |-> "", IssueDate |-> 1,
     DueDate |-> 2, Description |-> ""]

FieldCreateInvoiceRequests ==
    {[BaseCreateInvoiceRequest EXCEPT !.IssueDate = i, !.DueDate = d] :
        i \in {1, 2}, d \in {1, 2}}
    \cup {[BaseCreateInvoiceRequest EXCEPT !.Amount = a] : a \in {-5, 0}}
    \cup {[BaseCreateInvoiceRequest EXCEPT !.ClientID = 0],
          [BaseCreateInvoiceRequest EXCEPT !.IssueDate = 0],
          [BaseCreateInvoiceRequest EXCEPT !.DueDate = 0]}

\* the request body {} and the requests that supply one field, or a status
\* and an amount
EmptyUpdateInvoiceRequest ==
    [Amount |-> 0, Status |-> "", IssueDate |-> 0, DueDate |-> 0,
     Description |-> ""]

StatusOnlyUpdateInvoiceRequests ==
    {[EmptyUpdateInvoiceRequest EXCEPT !.Status = s] :
        s \in {InvoiceStatusSent, "unknown"}}

FieldUpdateInvoiceRequests ==
    {EmptyUpdateInvoiceRequest}
    \cup StatusOnlyUpdateInvoiceRequests
    \cup {[EmptyUpdateInvoiceRequest EXCEPT !.Amount = a] : a \in {-5, 20}}
    \cup {[EmptyUpdateInvoiceRequest EXCEPT !.IssueDate = 2],
          [EmptyUpdateInvoiceRequest EXCEPT !.DueDate = 1],
          [EmptyUpdateInvoiceRequest EXCEPT !.Description = "x"]}
    \cup {[EmptyUpdateInvoiceRequest EXCEPT !.Status = InvoiceStatusSent,
                                            !.Amount = a] : a \in {-5, 20}}

NextFields ==
    \/ \E req \in ConcCreateClientRequests : CreateClient(req)
    \/ \E req \in FieldCreateInvoiceRequests : CreateInvoice(req)
    \/ \E id \in InvoiceIDs, req \in FieldUpdateInvoiceRequests :
          UpdateInvoice(id, req)

SpecFields == Init /\ [][NextFields]_vars

(* ---------------------------------------------------------------------- *)
(* Every handler that looks a record up by id, over few requests           *)
(* ---------------------------------------------------------------------- *)
GetInvoice(id) ==
    /\ IF ~FirstInvoice(invoices, id)
       THEN last' = Response("GetInvoice", StatusNotFound, 0)
       ELSE last' = Response("GetInvoice", StatusOK, 0)
    /\ UNCHANGED <<clients, invoices, now, procs, categories>>

LookupUpdateClientRequests ==
    {[EmptyUpdateClientRequest EXCEPT !.Name = "Bo"]}

LookupUpdateInvoiceRequests ==
    {[EmptyUpdateInvoiceRequest EXCEPT !.Status = InvoiceStatusSent]}

NextLookups ==
    \/ \E req \in CreateClientRequests : CreateClient(req)
    \/ \E id \in ClientIDs : GetClient(id)
    \/ \E id \in ClientIDs, req \in LookupUpdateClientRequests :
          UpdateClient(id, req)
    \/ \E id \in ClientIDs : DeleteClient(id)
    \/ CreateInvoice(BaseCreateInvoiceRequest)
    \/ \E id \in InvoiceIDs : GetInvoice(id)
    \/ \E id \in InvoiceIDs, req \in LookupUpdateInvoiceRequests :
          UpdateInvoice(id, req)
    \/ \E id \in InvoiceIDs : DeleteInvoice(id)

SpecLookups == Init /\ [][NextLookups]_vars

(* ---------------------------------------------------------------------- *)
(* The invoice handlers over requests whose status is any text             *)
(* ---------------------------------------------------------------------- *)
StatusCreateInvoiceRequests ==
    {[BaseCreateInvoiceRequest EXCEPT !.Status = s] :
        s \in InvoiceStatus \cup {"", "unknown", "DRAFT"}}

StatusUpdateInvoiceRequests ==
    {[EmptyUpdateInvoiceRequest EXCEPT !.Status = s] :
        s \in InvoiceStatus \cup {"", "unknown", "DRAFT"}}

NextStatus ==
    \/ \E req \in ConcCreateClientRequests : CreateClient(req)
    \/ \E req \in StatusCreateInvoiceRequests : CreateInvoice(req)
    \/ \E id \in InvoiceIDs, req \in StatusUpdateInvoiceRequests :
          UpdateInvoice(id, req)

SpecStatus == Init /\ [][NextStatus]_vars

(* ---------------------------------------------------------------------- *)
(* DeleteClient when the store fails to answer the count                   *)
(* ---------------------------------------------------------------------- *)
\* DeleteClient with a count query that returns an error: the handler does
\* not read the error, and invoiceCount keeps the zero it was declared with
DeleteClientCountError(id) ==
    /\ IF ~FirstClient(clients, id)
       THEN /\ last' = Response("DeleteClient", StatusNotFound, 0)
            /\ UNCHANGED clients
       ELSE LET invoiceCount == 0 IN
            IF invoiceCount > 0
            THEN /\ last' = Response("DeleteClient", StatusBadRequest,
                                     invoiceCount)
                 /\ UNCHANGED clients
            ELSE /\ clients' = SoftDelete(clients, id)
                 /\ last' = Response("DeleteClient", StatusOK, 0)
    /\ UNCHANGED <<invoices, now, procs, categories>>

FaultCreateInvoiceRequests ==
    {[BaseCreateInvoiceRequest EXCEPT !.ClientID = c] : c \in ClientIDs}

NextFaults ==
    \/ \E req \in CreateClientRequests : CreateClient(req)
    \/ \E req \in FaultCreateInvoiceRequests : CreateInvoice(req)
    \/ \E id \in ClientIDs : DeleteClient(id)
    \/ \E id \in ClientIDs : DeleteClientCountError(id)

SpecFaults == Init /\ [][NextFaults]_vars

(* ---------------------------------------------------------------------- *)
(* Concurrent UpdateInvoice requests that supply different fields          *)
(* ---------------------------------------------------------------------- *)
RaceUpdateInvoiceRequests ==
    {[EmptyUpdateInvoiceRequest EXCEPT !.Amount = 20],
     [EmptyUpdateInvoiceRequest EXCEPT !.Status = InvoiceStatusSent]}

NextRace ==
    \/ \E req \in ConcCreateClientRequests : ccCreate(req)
    \/ \E p \in Procs : ciFindClient(p, BaseCreateInvoiceRequest)
    \/ \E p \in Procs : ciCount(p)
    \/ \E p \in Procs : ciInsert(p)
    \/ \E p \in Procs, id \in InvoiceIDs, req \in RaceUpdateInvoiceRequests :
          uiFind(p, id, req)
    \/ \E p \in Procs, upsert \in BOOLEAN : uiSave(p, upsert)

SpecRace == Init /\ [][NextRace]_vars

(* ---------------------------------------------------------------------- *)
(* The category handlers of the catalog                                    *)
(* ---------------------------------------------------------------------- *)
\* a ParentID that is nil
NoParent == 0

CategoryIDs == 1..MaxCategories

\* database.DB.First(&category, id)
FirstCategory(cats, id) == id \in 1..Len(cats) /\ ~cats[id].DeletedAt

\* CreateCategoryRequest: binding:"required" of the name, and Validate
ValidateCreateCategory(req) == req.Name # "" /\ Len(req.Name) <= 100

\* UpdateCategoryRequest.Validate
ValidateUpdateCategory(req) == req.Name = "" \/ Len(req.Name) <= 100

\* MoveCategoryRequest.Validate: "Prevent moving to self"
ValidateMoveCategory(req, categoryID) ==
    ~(req.NewParentID # NoParent /\ req.NewParentID = categoryID)

CreateCategory(req) ==
    /\ Len(categories) < MaxCategories
    /\ IF ~ValidateCreateCategory(req)
       THEN /\ last' = Response("CreateCategory", StatusBadRequest, 0)
            /\ UNCHANGED categories
       ELSE IF req.ParentID # NoParent /\ ~FirstCategory(categories, req.ParentID)
       THEN /\ last' = Response("CreateCategory", StatusBadRequest, 0)
            /\ UNCHANGED categories
       ELSE /\ categories' =
                  Append(categories,
                         [ID |-> Len(categories) + 1, Name |-> req.Name,
                          ParentID |-> req.ParentID, DeletedAt |-> FALSE])
            /\ last' = Response("CreateCategory", StatusCreated, 0)
    /\ UNCHANGED <<clients, invoices, now, procs>>

UpdateCategory(id, req) ==
    /\ IF ~FirstCategory(categories, id)
       THEN /\ last' = Response("UpdateCategory", StatusNotFound, 0)
            /\ UNCHANGED categories
       ELSE IF ~ValidateUpdateCategory(req)
       THEN /\ last' = Response("UpdateCategory", StatusBadRequest, 0)
            /\ UNCHANGED categories
       ELSE IF req.ParentID # NoParent /\ req.ParentID = categories[id].ID
       THEN /\ last' = Response("UpdateCategory", StatusBadRequest, 0)
            /\ UNCHANGED categories
       ELSE IF req.ParentID # NoParent /\ ~FirstCategory(categories, req.ParentID)
       THEN /\ last' = Response("UpdateCategory", StatusBadRequest, 0)
            /\ UNCHANGED categories
       ELSE /\ categories' =
                  Save(categories,
                       [categories[id] EXCEPT
                           !.Name = IF req.Name # "" THEN req.Name ELSE @,
                           !.ParentID = IF req.ParentID # NoParent
                                        THEN req.ParentID ELSE @],
                       FALSE)
            /\ last' = Response("UpdateCategory", StatusOK, 0)
    /\ UNCHANGED <<clients, invoices, now, procs>>

MoveCategory(id, req) ==
    /\ IF ~FirstCategory(categories, id)
       THEN /\ last' = Response("MoveCategory", StatusNotFound, 0)
            /\ UNCHANGED categories
       ELSE IF ~ValidateMoveCategory(req, id)
       THEN /\ last' = Response("MoveCategory", StatusBadRequest, 0)
            /\ UNCHANGED categories
       ELSE IF req.NewParentID # NoParent
               /\ ~FirstCategory(categories, req.NewParentID)
       THEN /\ last' = Response("MoveCategory", StatusBadRequest, 0)
            /\ UNCHANGED categories
       ELSE /\ categories' =
                  Save(categories,
                       [categories[id] EXCEPT !.ParentID = req.NewParentID],
                       FALSE)
            /\ last' = Response("MoveCategory", StatusOK, 0)
    /\ UNCHANGED <<clients, invoices, now, procs>>

CreateCategoryRequests ==
    [Name : {"Books", ""}, ParentID : {NoParent} \cup CategoryIDs]

UpdateCategoryRequests ==
    [Name : {"", "Maps"}, ParentID : {NoParent} \cup CategoryIDs]

MoveCategoryRequests == [NewParentID : {NoParent} \cup CategoryIDs]

NextCategories ==
    \/ \E req \in CreateCategoryRequests : CreateCategory(req)
    \/ \E id \in CategoryIDs, req \in UpdateCategoryRequests :
          UpdateCategory(id, req)
    \/ \E id \in CategoryIDs, req \in MoveCategoryRequests :
          MoveCategory(id, req)

SpecCategories == Init /\ [][NextCategories]_vars

(* ---------------------------------------------------------------------- *)
(* The pure helpers applied to enumerated inputs                           *)
(* ---------------------------------------------------------------------- *)
StatusInputs == InvoiceStatus \cup {"", "unknown", "DRAFT"}

DueDates == 1..(MaxDay + 1)

Counts == 0..MaxCount

\* descriptions of "a", of e-acute (two bytes) and of the euro sign (three
\* bytes), around the limit of 500
Descriptions == [ch : {97, 233, 8364}, n : {0, 167, 251, 500, 501}]

ValidateRequests ==
    [ClientID : {0, 1}, Amount : {-5, 0, 10}, Description : Descriptions,
     IssueDate : {0, 1, 2}, DueDate : {0, 1, 2}]

StatusTransitionCheck(from, to) ==
    /\ last' = [op |-> "isValidStatusTransition", from |-> from, to |-> to,
                result |-> isValidStatusTransition(from, to)]
    /\ UNCHANGED <<clients, invoices, now, procs, categories>>

OverdueCheck(status, due) ==
    /\ last' = [op |-> "IsOverdue", status |-> status, due |-> due, at |-> now,
                result |-> IsOverdue([Status |-> status, DueDate |-> due])]
    /\ UNCHANGED <<clients, invoices, now, procs, categories>>

\* the number CreateInvoice formats when the count of the day is `count`
InvoiceNumberCheck(count) ==
    /\ last' = [op |-> "InvoiceNumber", at |-> now, count |-> count,
                result |-> InvoiceNumber(now, count)]
    /\ UNCHANGED <<clients, invoices, now, procs, categories>>

ValidateCheck(req) ==
    /\ last' = [op |-> "validateCreateInvoiceRequest", req |-> req,
                result |-> validateCreateInvoiceRequest(req)]
    /\ UNCHANGED <<clients, invoices, now, procs, categories>>

\* a path of status changes, each allowed by isValidStatusTransition
WalkStart(from) ==
    /\ last' = [op |-> "walk", path |-> <<from>>]
    /\ UNCHANGED <<clients, invoices, now, procs, categories>>

WalkStep(to) ==
    /\ last.op = "walk"
    /\ Len(last.path) < MaxWalk
    /\ isValidStatusTransition(last.path[Len(last.path)], to)
    /\ last' = [op |-> "walk", path |-> Append(last.path, to)]
    /\ UNCHANGED <<clients, invoices, now, procs, categories>>

NextFn ==
    \/ Tick
    \/ \E from \in InvoiceStatus : WalkStart(from)
    \/ \E to \in InvoiceStatus : WalkStep(to)
    \/ \E req \in ValidateRequests : ValidateCheck(req)
    \/ \E count \in Counts : InvoiceNumberCheck(count)
    \/ \E from \in StatusInputs, to \in StatusInputs : StatusTransitionCheck(from, to)
    \/ \E status \in InvoiceStatus, due \in DueDates : OverdueCheck(status, due)

SpecFn == Init /\ [][NextFn]_vars

(* ---------------------------------------------------------------------- *)
(* Properties                                                              *)
(* ---------------------------------------------------------------------- *)
\* the transition graph as the specification lists it
LegalEdges ==
    {<<"draft", "sent">>, <<"draft", "cancelled">>,
     <<"sent", "paid">>, <<"sent", "overdue">>, <<"sent", "cancelled">>,
     <<"overdue", "paid">>, <<"overdue", "cancelled">>}

StoredInvoices == 1..Len(invoices)

StoredClients == 1..Len(clients)

LiveInvoicesOf(cid) ==
    {i \in StoredInvoices : invoices[i].ClientID = cid /\ ~invoices[i].DeletedAt}

\* C1: every status change applied by UpdateInvoice is a legal edge of the
\* transition graph: an update request carrying status t for a stored invoice
\* with status s is rejected, leaving the invoice as it was, unless (s, t) is
\* an edge; t = s is no edge.
C1_OnlyLegalTransitions ==
    [][\A id \in InvoiceIDs, req \in UpdateInvoiceRequests :
          (/\ UpdateInvoice(id, req)
           /\ id \in StoredInvoices /\ ~invoices[id].DeletedAt
           /\ req.Status # ""
           /\ <<invoices[id].Status, req.Status>> \notin LegalEdges)
          => last'.code # StatusOK /\ invoices' = invoices]_vars

\* C2: isValidStatusTransition answers true for exactly the seven edges of
\* the graph and false for every other pair, self-pairs and pairs whose
\* 'from' is no status included.
C2_TransitionTable ==
    last.op = "isValidStatusTransition"
    => (last.result <=> <<last.from, last.to>> \in LegalEdges)

C2_Witness ==
    /\ last.op = "isValidStatusTransition"
    /\ last.from = "sent" /\ last.to = "sent"
    /\ last.result = FALSE

\* C3: terminal statuses are absorbing: a stored invoice whose status is paid
\* or cancelled keeps that status in every later step.
C3_TerminalAbsorbing ==
    [][\A i \in StoredInvoices :
          invoices[i].Status \in {InvoiceStatusPaid, InvoiceStatusCancelled}
          => invoices'[i].Status = invoices[i].Status]_vars

C5_DeletedClientHasNoLiveInvoice ==
    \A c \in StoredClients : clients[c].DeletedAt => LiveInvoicesOf(c) = {}

C7_DeletedInvoicesNotCounted ==
    [][\A id \in ClientIDs :
          (/\ DeleteClient(id)
           /\ id \in StoredClients /\ ~clients[id].DeletedAt
           /\ \E i \in StoredInvoices : invoices[i].ClientID = id
           /\ \A i \in StoredInvoices :
                 invoices[i].ClientID = id => invoices[i].DeletedAt)
          => clients'[id].DeletedAt /\ last'.code = StatusOK]_vars

\* a client deleted although two (soft-deleted) invoice rows reference it
C7_Witness ==
    /\ last.op = "DeleteClient" /\ last.code = StatusOK
    /\ \E c \in StoredClients :
          /\ clients[c].DeletedAt
          /\ Cardinality({i \in StoredInvoices : invoices[i].ClientID = c}) = 2
          /\ LiveInvoicesOf(c) = {}

\* C8: DeleteInvoice on an existing invoice is refused exactly when its
\* status is paid, and then the invoice stays live; for every other status
\* it answers 200 and the invoice is soft-deleted.
C8_DeleteInvoiceGuard ==
    [][\A id \in InvoiceIDs :
          (DeleteInvoice(id) /\ id \in StoredInvoices /\ ~invoices[id].DeletedAt)
          => IF invoices[id].Status = "paid"
             THEN last'.code = StatusBadRequest /\ invoices' = invoices
             ELSE last'.code = StatusOK /\ invoices'[id].DeletedAt]_vars

\* a delete of a paid invoice was refused and the invoice is still live,
\* next to a cancelled invoice that was deleted
C8_Witness ==
    /\ last.op = "DeleteInvoice" /\ last.code = StatusBadRequest
    /\ \E i \in StoredInvoices, j \in StoredInvoices :
          /\ invoices[i].Status = "paid" /\ ~invoices[i].DeletedAt
          /\ invoices[j].Status = "cancelled" /\ invoices[j].DeletedAt

\* C9: with DeleteInvoice and UpdateInvoice(status = paid) requests for the
\* same invoice in flight together, no soft-deleted invoice is paid.
C9_NoDeletedPaidInvoice ==
    \A i \in StoredInvoices :
        invoices[i].DeletedAt => invoices[i].Status # InvoiceStatusPaid

\* C10: no two stored invoices, live or soft-deleted, have the same number,
\* however concurrent CreateInvoice requests interleave.
C10_UniqueNumbers ==
    \A i \in StoredInvoices, j \in StoredInvoices :
        i # j => invoices[i].Number # invoices[j].Number

\* two requests counted the same rows: one has stored its invoice, the other
\* is about to insert the same number
C10_Witness ==
    \E p \in Procs, i \in StoredInvoices :
        /\ procs[p].pc = "ci_insert"
        /\ procs[p].number = invoices[i].Number
        /\ Len(invoices) < MaxInvoices

\* C11: when the insert of CreateInvoice is refused because the generated
\* number is already stored, the request ends in a conflict outcome of its
\* own: the response is none of the validation (400), not-found (404) and
\* generic storage failure (500) responses.
C11_DuplicateNumberIsConflict ==
    [][\A req \in CreateInvoiceRequests :
          (/\ CreateInvoice(req)
           /\ BindCreateInvoice(req) /\ FirstClient(clients, req.ClientID)
           /\ \E i \in StoredInvoices :
                 invoices[i].Number =
                    InvoiceNumber(now, CountInvoicesCreatedOn(invoices, now)))
          => last'.code \notin {StatusBadRequest, StatusNotFound,
                                StatusInternalServerError}]_vars

C13_NumberFromIssueDate ==
    [][(last'.op = "CreateInvoice" /\ Len(invoices') = Len(invoices) + 1)
       => LET invoice == invoices'[Len(invoices')] IN
          invoice.Number =
             InvoiceNumber(invoice.IssueDate,
                 Cardinality({i \in StoredInvoices :
                                 /\ invoices[i].IssueDate = invoice.IssueDate
                                 /\ ~invoices[i].DeletedAt}))]_vars

\* C14: UpdateInvoice never changes the id, the number or the client of an
\* invoice: whatever the request, the three fields of every stored invoice
\* are the same before and after.
C14_UpdateKeepsIdentity ==
    [][last'.op = "UpdateInvoice"
       => /\ Len(invoices') = Len(invoices)
          /\ \A i \in StoredInvoices :
                /\ invoices'[i].ID = invoices[i].ID
                /\ invoices'[i].Number = invoices[i].Number
                /\ invoices'[i].ClientID = invoices[i].ClientID]_vars

\* an update has replaced amount, status, dates and description of the
\* second invoice, which still has its id, number and client
C14_Witness ==
    /\ last.op = "UpdateInvoice" /\ last.code = StatusOK
    /\ Len(invoices) = 2
    /\ invoices[2].Amount = 20 /\ invoices[2].Status = InvoiceStatusSent
    /\ invoices[2].IssueDate = 2 /\ invoices[2].DueDate = 1
    /\ invoices[2].Description = "x"
    /\ invoices[2].ID = 2 /\ invoices[2].Number = "INV-20240130-2"
    /\ invoices[2].ClientID = 1

C17_DueNotBeforeIssue ==
    \A i \in StoredInvoices : invoices[i].DueDate >= invoices[i].IssueDate

\* C18: every stored invoice has an amount above zero: CreateInvoice with an
\* amount of zero or less is rejected with 400 and stores nothing (whenever
\* it answers otherwise the amount of the request is above zero), and
\* UpdateInvoice replaces an amount only when the amount of the request is
\* above zero.
C18_PositiveAmounts ==
    /\ [](\A i \in StoredInvoices : invoices[i].Amount > 0)
    /\ [][(/\ last'.op = "CreateInvoice"
            /\ ~(invoices' = invoices /\ last'.code = StatusBadRequest))
           => \A req \in FieldCreateInvoiceRequests :
                 CreateInvoice(req) => req.Amount > 0]_vars
    /\ [][\A id \in StoredInvoices :
             (/\ last'.op = "UpdateInvoice"
              /\ invoices'[id].Amount # invoices[id].Amount)
             => \A req \in FieldUpdateInvoiceRequests :
                   UpdateInvoice(id, req) => req.Amount > 0]_vars

\* an update was refused after the amount of the first invoice was replaced
\* by 20; the second has the amount it was created with
C18_Witness ==
    /\ last.op = "UpdateInvoice" /\ last.code = StatusBadRequest
    /\ Len(invoices) = 2
    /\ invoices[1].Amount = 20 /\ invoices[2].Amount = 10

\* C16: CreateInvoice stores an invoice only if the client of the request
\* exists and is not soft-deleted when the handler looks it up; otherwise it
\* answers 400 and the stored invoices are as before (whenever it answers
\* otherwise, the client of the request exists and is not soft-deleted).
C16_InvoiceNeedsLiveClient ==
    [][/\ (last'.op = "CreateInvoice" /\ invoices' # invoices)
          => LET invoice == invoices'[Len(invoices')] IN
             /\ invoice.ClientID \in StoredClients
             /\ ~clients[invoice.ClientID].DeletedAt
       /\ (/\ last'.op = "CreateInvoice"
           /\ ~(invoices' = invoices /\ last'.code = StatusBadRequest))
          => \A req \in CreateInvoiceRequests :
                CreateInvoice(req)
                => /\ req.ClientID \in StoredClients
                   /\ ~clients[req.ClientID].DeletedAt]_vars

\* an invoice for a soft-deleted client was refused, next to a live client
\* that has an invoice
C16_Witness ==
    /\ last.op = "CreateInvoice" /\ last.code = StatusBadRequest
    /\ \E c \in StoredClients, d \in StoredClients :
          /\ clients[c].DeletedAt /\ ~clients[d].DeletedAt
          /\ LiveInvoicesOf(c) = {} /\ LiveInvoicesOf(d) # {}

\* C19: validateCreateInvoiceRequest returns an error exactly when the
\* client id is zero, or the amount is zero or less, or the description has
\* more than 500 characters, or both dates are set and the due date is
\* before the issue date; the checks are made in that order and the first
\* that fails returns.
C19_ValidateForCreate ==
    last.op = "validateCreateInvoiceRequest"
    => LET req == last.req
           failing ==
              IF req.ClientID = 0 THEN 1
              ELSE IF req.Amount <= 0 THEN 2
              ELSE IF req.Description.n > 500 THEN 3
              ELSE IF req.DueDate # 0 /\ req.IssueDate # 0
                         /\ req.DueDate < req.IssueDate THEN 4
              ELSE 0
       IN  /\ last.result.err <=> failing # 0
           /\ last.result.at = failing

\* C20: IsOverdue is false for a draft, paid or cancelled invoice whatever
\* its due date; for a sent or overdue invoice it is true exactly when the
\* time of the call is after the due date, and false at the due date itself.
C20_IsOverdue ==
    last.op = "IsOverdue"
    => (last.result <=>
           /\ last.status \in {InvoiceStatusSent, InvoiceStatusOverdue}
           /\ last.at > last.due)

\* a sent invoice asked about at its due date
C20_Witness ==
    /\ last.op = "IsOverdue" /\ last.status = InvoiceStatusSent
    /\ last.at = 2 /\ last.due = 2 /\ last.result = FALSE

\* C21: IsOverdue is a function of its inputs: two evaluations for the same
\* invoice (status, due date) return the same result whatever the wall clock
\* shows at each of them.  The method takes no reference time, so the invoice
\* is all a caller can supply.
C21_IsOverdueDeterministic ==
    [][(/\ last.op = "IsOverdue" /\ last'.op = "IsOverdue"
        /\ last'.status = last.status /\ last'.due = last.due)
       => last'.result = last.result]_vars

C23_FieldsNeverCleared ==
    [][last'.op = "UpdateClient"
       => \A c \in StoredClients :
             /\ clients[c].Name # "" => clients'[c].Name # ""
             /\ clients[c].Email # "" => clients'[c].Email # ""
             /\ clients[c].Phone # "" => clients'[c].Phone # ""
             /\ clients[c].Address # "" => clients'[c].Address # ""]_vars

\* a client whose four fields are set has been updated, by a request that
\* left phone and address empty, and still has all four
C23_Witness ==
    /\ last.op = "UpdateClient" /\ last.code = StatusOK
    /\ \E c \in StoredClients :
          /\ clients[c].Name = "Bo" /\ clients[c].Email = "b@x.io"
          /\ clients[c].Phone = "555" /\ clients[c].Address = "Rue"

\* C24: deletion is soft and, for lookups, permanent: a soft-deleted client
\* or invoice stays in its table, marked deleted and otherwise as it was, no
\* row is ever removed, and every later get, update or delete of its id
\* answers 404.
C24_SoftDeleteIsPermanent ==
    [][/\ Len(clients') >= Len(clients) /\ Len(invoices') >= Len(invoices)
       /\ \A c \in StoredClients :
             clients[c].DeletedAt
             => /\ clients'[c] = clients[c]
                /\ (\/ GetClient(c) \/ DeleteClient(c)
                    \/ \E req \in LookupUpdateClientRequests :
                          UpdateClient(c, req))
                   => last'.code = StatusNotFound
       /\ \A i \in StoredInvoices :
             invoices[i].DeletedAt
             => /\ invoices'[i] = invoices[i]
                /\ (\/ GetInvoice(i) \/ DeleteInvoice(i)
                    \/ \E req \in LookupUpdateInvoiceRequests :
                          UpdateInvoice(i, req))
                   => last'.code = StatusNotFound]_vars

\* every client id and every invoice id is one of a soft-deleted row, still
\* stored, and an update has just been answered 404
C24_Witness ==
    /\ Len(clients) = MaxClients /\ Len(invoices) = MaxInvoices
    /\ \A c \in StoredClients : clients[c].DeletedAt
    /\ \A i \in StoredInvoices : invoices[i].DeletedAt
    /\ last.op = "UpdateInvoice" /\ last.code = StatusNotFound

\* C25: the status of every stored invoice is one of draft, sent, paid,
\* overdue and cancelled; an invoice created without a status is stored as
\* a draft; a create or an update that carries any other status text is
\* rejected with 400 and stores nothing.
C25_StatusIsOneOfFive ==
    /\ [](\A i \in StoredInvoices : invoices[i].Status \in InvoiceStatus)
    /\ [][\A req \in StatusCreateInvoiceRequests :
             (last'.op = "CreateInvoice" /\ CreateInvoice(req))
             => IF req.Status \in InvoiceStatus \cup {""}
                THEN invoices' # invoices
                     => invoices'[Len(invoices')].Status =
                           IF req.Status = "" THEN InvoiceStatusDraft
                           ELSE req.Status
                ELSE invoices' = invoices
                     /\ last'.code = StatusBadRequest]_vars
    /\ [][\A id \in StoredInvoices, req \in StatusUpdateInvoiceRequests :
             (/\ last'.op = "UpdateInvoice"
              /\ req.Status \notin InvoiceStatus \cup {""}
              /\ UpdateInvoice(id, req))
             => invoices' = invoices /\ last'.code = StatusBadRequest]_vars

\* an update was refused for its status; the first invoice, created without
\* a status, is a draft, and the second was created as overdue
C25_Witness ==
    /\ last.op = "UpdateInvoice" /\ last.code = StatusBadRequest
    /\ Len(invoices) = 2
    /\ invoices[1].Status = InvoiceStatusDraft
    /\ invoices[2].Status = InvoiceStatusOverdue

\* C26: the delete guard swallows no lookup failure: when the count of the
\* client's live invoices fails, DeleteClient ends in an error and the
\* client is not deleted.  Stated for the clients that have live invoices,
\* where a failed count taken for a count of 0 shows.
C26_CountFailureNotSwallowed ==
    [][\A id \in StoredClients :
          (/\ ~clients[id].DeletedAt
           /\ CountInvoicesOfClient(invoices, id) > 0
           /\ DeleteClientCountError(id))
          => last'.code # StatusOK /\ clients' = clients]_vars

\* C27: with requests served one at a time, the number CreateInvoice
\* generates is never the number of a stored invoice, live or soft-deleted,
\* whatever invoices were created and deleted before: whenever the handler
\* gets as far as generating a number (its answer is not 400), that number
\* is new and the invoice is stored.
C27_SequentialNumbersAreNew ==
    [][(last'.op = "CreateInvoice" /\ last'.code # StatusBadRequest)
       => /\ \A i \in StoredInvoices :
                invoices[i].Number #
                   InvoiceNumber(now, CountInvoicesCreatedOn(invoices, now))
          /\ last'.code = StatusCreated]_vars

\* C28: concurrent UpdateInvoice requests on one invoice that supply
\* different fields both take effect.  The requests in flight supply either
\* the amount 20 or the status sent and nothing else, so a change that is
\* stored stays stored whatever save of the other request follows.
C28_DisjointUpdatesBothApply ==
    [][\A i \in StoredInvoices :
          /\ invoices[i].Amount = 20 => invoices'[i].Amount = 20
          /\ invoices[i].Status = InvoiceStatusSent
                => invoices'[i].Status = InvoiceStatusSent]_vars

\* C29: the legal transitions have no cycle: no path of legal status changes
\* comes back to a status it has passed, so every such path is finite and
\* has at most three changes.
C29_TransitionsAcyclic ==
    last.op = "walk"
    => /\ \A i \in 1..Len(last.path), j \in 1..Len(last.path) :
             i # j => last.path[i] # last.path[j]
       /\ Len(last.path) - 1 <= 3

\* the longest path
C29_Witness ==
    /\ last.op = "walk"
    /\ last.path = <<InvoiceStatusDraft, InvoiceStatusSent,
                     InvoiceStatusOverdue, InvoiceStatusPaid>>

StoredCategories == 1..Len(categories)

RECURSIVE AncestorsWithin(_, _)
\* the categories met on the first n parent links from category c
AncestorsWithin(c, n) ==
    IF n = 0 \/ categories[c].ParentID = NoParent
    THEN {}
    ELSE {categories[c].ParentID}
            \cup AncestorsWithin(categories[c].ParentID, n - 1)

\* C30: the parent relation of the categories is a forest: whatever
\* CreateCategory, UpdateCategory and MoveCategory requests were served, no
\* category is its own parent or its own ancestor over several parent links
\* (so that following the parents from any category ends).
C30_CategoryForest ==
    \A c \in StoredCategories :
        c \notin AncestorsWithin(c, Len(categories))

====
